---- MODULE Spec2Model ----
(***************************************************************************)
(* Model of the inner!, some! and ok! macros and of the IntoResult trait   *)
(* (src/src/lib.rs).  A macro invocation is modelled as the run of its     *)
(* expansion: the call site is matched against the macro's rules in order, *)
(* the scrutinee of the generated match is evaluated, one arm is taken,    *)
(* and the arm yields a value, evaluates the caller's else/or expression,  *)
(* or panics.                                                              *)
(*                                                                         *)
(* Values.  Every constructor involved is nullary or unary, so a value is  *)
(* the list of its constructors, outermost first, and its integer leaf:    *)
(*   7                 [path |-> <<>>,                n |-> 7]             *)
(*   Some(7)           [path |-> <<"Some">>,          n |-> 7]             *)
(*   Err(Orange(15))   [path |-> <<"Err", "Orange">>, n |-> 15]            *)
(*   Err(())           [path |-> <<"Err", "Unit">>,   n |-> 0]             *)
(***************************************************************************)
EXTENDS Integers, Sequences, FiniteSets, TLC

\* Payloads range over 0..MaxPayload.
MaxPayload == 1

Payloads == 0..MaxPayload

IntV(k) == [path |-> <<>>, n |-> k]

Wrap(tag, v) == [path |-> <<tag>> \o v.path, n |-> v.n]

Unwrap(v) == [path |-> Tail(v.path), n |-> v.n]

Tag(v) == IF v.path = <<>> THEN "Int" ELSE Head(v.path)

Unit == [path |-> <<"Unit">>, n |-> 0]

NoneV == [path |-> <<"None">>, n |-> 0]

\* No value: an unset binder, result or scrutinee.
NoVal == [path |-> <<"?">>, n |-> 0]

\* A closure value |e| b that was not called.
Closure == [path |-> <<"Closure">>, n |-> 0]

OptionValues == {NoneV} \cup {Wrap("Some", IntV(k)) : k \in Payloads}

ResultValues == {Wrap(t, IntV(k)) : t \in {"Ok", "Err"}, k \in Payloads}

FruitValues == {Wrap(t, IntV(k)) : t \in {"Apple", "Orange"}, k \in Payloads}

TargetValues == OptionValues \cup ResultValues \cup FruitValues

\* The single-payload variants of the target's type: what `if $i:path` may name.
Selectors(v) ==
    IF v \in OptionValues THEN {"Some"}
    ELSE IF v \in ResultValues THEN {"Ok", "Err"}
    ELSE {"Apple", "Orange"}

\* into_result with the payload of a Result's Err replaced by ().
into_result_unit_err(v) ==
    CASE Tag(v) = "Some"   -> Wrap("Ok", Unwrap(v))
      [] Tag(v) = "None"   -> Wrap("Err", Unit)
      [] Tag(v) = "Apple"  -> Wrap("Ok", Unwrap(v))
      [] Tag(v) = "Orange" -> Wrap("Err", Unwrap(v))
      [] Tag(v) = "Err"    -> Wrap("Err", Unit)
      [] OTHER             -> v

\* IntoResult::into_result: Result is returned as is, Option goes through
\* ok_or(()), and Fruit is the implementation of the own_enum test.
into_result(v) ==
    CASE Tag(v) = "Some"   -> Wrap("Ok", Unwrap(v))
      [] Tag(v) = "None"   -> Wrap("Err", Unit)
      [] Tag(v) = "Apple"  -> Wrap("Ok", Unwrap(v))
      [] Tag(v) = "Orange" -> Wrap("Err", Unwrap(v))
      [] OTHER             -> v

(***************************************************************************)
(* The rules.  pat is the call-site syntax the rule accepts; conv says     *)
(* whether the scrutinee is $x.into_result() (pattern Ok(q)) or $x         *)
(* (pattern $i(q)); okArm is the value of the matching arm; elseArm the    *)
(* other arm; binds says what $e names: the whole scrutinee ($e @ _), the  *)
(* payload of Err (Err($e)), or nothing.                                   *)
(***************************************************************************)
Pat(hasIf, clause, binder) == [hasIf |-> hasIf, clause |-> clause, binder |-> binder]

MkRule(pat, conv, okArm, elseArm, binds) ==
    [pat |-> pat, conv |-> conv, okArm |-> okArm, elseArm |-> elseArm, binds |-> binds]

InnerIfElseBind == MkRule(Pat(TRUE, "else", TRUE), FALSE, "q", "body", "item")

InnerIfElse == MkRule(Pat(TRUE, "else", FALSE), FALSE, "q", "body", "none")

\* inner!($x, else |$e| $b) with the binder of the if forms, $e @ _.
InnerElseBindItem == MkRule(Pat(FALSE, "else", TRUE), TRUE, "q", "body", "item")

InnerElseBind == MkRule(Pat(FALSE, "else", TRUE), TRUE, "q", "body", "payload")

InnerElse == MkRule(Pat(FALSE, "else", FALSE), TRUE, "q", "body", "none")

\* inner!($x, if $i) matching on $x.into_result().
InnerIfConv == MkRule(Pat(TRUE, "none", FALSE), TRUE, "q", "panic", "none")

InnerIf == MkRule(Pat(TRUE, "none", FALSE), FALSE, "q", "panic", "none")

\* inner!($x) with the success arm of some!, Ok(q) => Some(q).
InnerPlainWrapped == MkRule(Pat(FALSE, "none", FALSE), TRUE, "Some(q)", "panic", "none")

InnerPlain == MkRule(Pat(FALSE, "none", FALSE), TRUE, "q", "panic", "none")

SomeIfElseBind == MkRule(Pat(TRUE, "else", TRUE), FALSE, "Some(q)", "body", "item")

SomeIfElse == MkRule(Pat(TRUE, "else", FALSE), FALSE, "Some(q)", "body", "none")

\* some!($x, if $i) with the panic arm of inner!.
SomeIfPanics == MkRule(Pat(TRUE, "none", FALSE), FALSE, "Some(q)", "panic", "none")

SomeIf == MkRule(Pat(TRUE, "none", FALSE), FALSE, "Some(q)", "None", "none")

OkIfElseBind == MkRule(Pat(TRUE, "else", TRUE), FALSE, "Ok(q)", "body", "item")

OkIfElse == MkRule(Pat(TRUE, "else", FALSE), FALSE, "Ok(q)", "body", "none")

OkIfOrBind == MkRule(Pat(TRUE, "or", TRUE), FALSE, "Ok(q)", "Err(body)", "item")

\* ok!($x, if $i, or $b) without the Err around $b.
OkIfOrUnwrapped == MkRule(Pat(TRUE, "or", FALSE), FALSE, "Ok(q)", "body", "none")

OkIfOr == MkRule(Pat(TRUE, "or", FALSE), FALSE, "Ok(q)", "Err(body)", "none")

OkIf == MkRule(Pat(TRUE, "none", FALSE), FALSE, "Ok(q)", "Err(n)", "none")

\* The rules with the binder rules of some! after the rule they shadow.
RulesBinderLast(mac) ==
    CASE mac = "inner" -> <<InnerIfElseBind, InnerIfElse, InnerElseBind,
                            InnerElse, InnerIf, InnerPlain>>
      [] mac = "some"  -> <<SomeIfElse, SomeIfElseBind, SomeIf>>
      [] mac = "ok"    -> <<OkIfElseBind, OkIfElse, OkIfOrBind, OkIfOr, OkIf>>

\* The rules of each macro, in source order.
Rules(mac) ==
    CASE mac = "inner" -> <<InnerIfElseBind, InnerIfElse, InnerElseBind,
                            InnerElse, InnerIf, InnerPlain>>
      [] mac = "some"  -> <<SomeIfElseBind, SomeIfElse, SomeIf>>
      [] mac = "ok"    -> <<OkIfElseBind, OkIfElse, OkIfOrBind, OkIfOr, OkIf>>

\* A rule accepts a call when the keywords agree.  `|e| b` after else/or is
\* also an expression (a closure), so a rule without binder accepts it too.
Accepts(pat, shape) ==
    /\ pat.hasIf = shape.hasIf
    /\ pat.clause = shape.clause
    /\ pat.binder => shape.binder

Compiles(mac, shape) == \E i \in 1..Len(Rules(mac)) : Accepts(Rules(mac)[i].pat, shape)

\* macro_rules! takes the first rule that accepts the call.
SelectRule(mac, shape) ==
    LET idx == CHOOSE i \in 1..Len(Rules(mac)) :
                   /\ Accepts(Rules(mac)[i].pat, shape)
                   /\ \A j \in 1..(i - 1) : ~Accepts(Rules(mac)[j].pat, shape)
    IN Rules(mac)[idx]

(***************************************************************************)
(* The call site.  An invocation names the macro, the shape of the call,   *)
(* the target expression $x (its source text and the value it evaluates    *)
(* to), the variant after `if`, and the caller's else/or expression $b.    *)
(***************************************************************************)
Macros == {"inner", "some", "ok"}

Shapes ==
    {Pat(h, c, b) : h \in BOOLEAN, c \in {"none", "else", "or"}, b \in BOOLEAN}

\* Source texts of target expressions.
SrcTexts == {"z", "next(&mut n)"}

Targets == [text : SrcTexts, value : TargetValues]

NoSel == "-"

NoBody == [kind |-> "none", val |-> NoVal]

\* What the caller's expression does when evaluated: yield a constant of the
\* type the position requires, yield a value computed from the binder e,
\* return from the enclosing function, or panic.
BodyConsts(mac, clause) ==
    IF clause = "or" \/ mac = "inner" THEN {IntV(k) : k \in Payloads}
    ELSE IF mac = "some" THEN OptionValues
    ELSE ResultValues

Bodies(mac, shape) ==
    IF shape.clause = "none" THEN {NoBody}
    ELSE {[kind |-> "const", val |-> c] : c \in BodyConsts(mac, shape.clause)}
         \cup {[kind |-> k, val |-> NoVal] : k \in {"return", "panic"}}
         \cup IF shape.binder THEN {[kind |-> "use_e", val |-> NoVal]} ELSE {}

\* The value of a body that uses its binder: an opaque function F of e.
F(e) == Wrap("F", e)

NoInv ==
    [mac |-> "inner", shape |-> Pat(FALSE, "none", FALSE),
     target |-> [text |-> "z", value |-> NoneV], sel |-> NoSel, body |-> NoBody]

VARIABLES
    pc,        \* "call", "scrutinee", "match", "body", "after", "done"
    inv,       \* the invocation being run
    evals,     \* evaluations of the target expression in this invocation
    bodyEvals, \* evaluations of the caller's else/or expression
    scrut,     \* the value the generated match inspects
    bound,     \* the value bound to the binder $e
    result,    \* the value the macro invocation yields
    outcome,   \* "none", "value", "panic", "body_panic", "return"
    panicMsg,  \* the pieces of the panic message
    afterRan   \* the statement following the invocation has run

vars == <<pc, inv, evals, bodyEvals, scrut, bound, result, outcome, panicMsg, afterRan>>

Rule == SelectRule(inv.mac, inv.shape)

\* The variant the success arm's pattern names: Ok(q) or $i(q).
PatTag == IF Rule.conv THEN "Ok" ELSE inv.sel

IsMatch == Tag(scrut) = PatTag

\* The panic arm formatting $x itself instead of stringify!($x).
TargetEvalsFormatted(position) ==
    CASE position = "scrutinee" -> 1
      [] position = "stringify" -> 1

\* How many times a position of the expansion evaluates $x: the scrutinee
\* of the match does once, stringify!($x) in the panic arm never does.
TargetEvals(position) ==
    CASE position = "scrutinee" -> 1
      [] position = "stringify" -> 0

\* The message with the literal text $x in place of stringify!($x).
InnerIfMessageLiteral(text) == <<"Unexpected value found inside '", "$x", "'">>

\* The panic arm of inner!($x, if $i).
InnerIfMessage(text) == <<"Unexpected value found inside '", text, "'">>

\* The panic arm of inner!($x).
InnerPlainMessage(text) == <<"Unexpected value found inside '", text, "'">>

\* The caller's own panic!("Not an apple").
CallerMessage == <<"Not an apple">>

Init ==
    /\ pc = "call"
    /\ inv = NoInv
    /\ evals = 0
    /\ bodyEvals = 0
    /\ scrut = NoVal
    /\ bound = NoVal
    /\ result = NoVal
    /\ outcome = "none"
    /\ panicMsg = <<>>
    /\ afterRan = FALSE

\* The caller reaches a macro invocation that compiles.
Call ==
    /\ pc = "call"
    /\ \E mac \in Macros, shape \in Shapes, t \in Targets :
         /\ Compiles(mac, shape)
         /\ shape.binder => shape.clause # "none"
         /\ \E sel \in (IF shape.hasIf THEN Selectors(t.value) ELSE {NoSel}),
               b \in Bodies(mac, shape) :
              inv' = [mac |-> mac, shape |-> shape, target |-> t,
                      sel |-> sel, body |-> b]
    /\ pc' = "scrutinee"
    /\ UNCHANGED <<evals, bodyEvals, scrut, bound, result, outcome, panicMsg, afterRan>>

\* match $x { ... } or match $x.into_result() { ... }
EvalScrutinee ==
    /\ pc = "scrutinee"
    /\ evals' = evals + TargetEvals("scrutinee")
    /\ scrut' = IF Rule.conv THEN into_result(inv.target.value) ELSE inv.target.value
    /\ pc' = "match"
    /\ UNCHANGED <<inv, bodyEvals, bound, result, outcome, panicMsg, afterRan>>

\* $i(q) => q | Some(q) | Ok(q)
OkArm ==
    /\ pc = "match"
    /\ IsMatch
    /\ result' = CASE Rule.okArm = "q"       -> Unwrap(scrut)
                   [] Rule.okArm = "Some(q)" -> Wrap("Some", Unwrap(scrut))
                   [] Rule.okArm = "Ok(q)"   -> Wrap("Ok", Unwrap(scrut))
    /\ outcome' = "value"
    /\ pc' = "after"
    /\ UNCHANGED <<inv, evals, bodyEvals, scrut, bound, panicMsg, afterRan>>

\* _ => panic!(...)
PanicArm ==
    /\ pc = "match"
    /\ ~IsMatch
    /\ Rule.elseArm = "panic"
    /\ evals' = evals + TargetEvals("stringify")
    /\ panicMsg' = IF Rule.conv THEN InnerPlainMessage(inv.target.text)
                   ELSE InnerIfMessage(inv.target.text)
    /\ outcome' = "panic"
    /\ pc' = "done"
    /\ UNCHANGED <<inv, bodyEvals, scrut, bound, result, afterRan>>

\* _ => None  and  n @ _ => Err(n)
ValueArm ==
    /\ pc = "match"
    /\ ~IsMatch
    /\ Rule.elseArm \in {"None", "Err(n)"}
    /\ result' = IF Rule.elseArm = "None" THEN NoneV ELSE Wrap("Err", scrut)
    /\ outcome' = "value"
    /\ pc' = "after"
    /\ UNCHANGED <<inv, evals, bodyEvals, scrut, bound, panicMsg, afterRan>>

\* $e @ _ => ..., Err($e) => ..., _ => ...: the arm that holds $b is entered.
BodyArm ==
    /\ pc = "match"
    /\ ~IsMatch
    /\ Rule.elseArm \in {"body", "Err(body)"}
    /\ bound' = CASE Rule.binds = "item"    -> scrut
                  [] Rule.binds = "payload" -> Unwrap(scrut)
                  [] Rule.binds = "none"    -> NoVal
    /\ pc' = "body"
    /\ UNCHANGED <<inv, evals, bodyEvals, scrut, result, outcome, panicMsg, afterRan>>

\* $b wrapped in a callable that the arm calls: a return inside $b leaves the
\* callable only, and the caller's function goes on.
EvalBodyAsCallable ==
    /\ pc = "body"
    /\ bodyEvals' = bodyEvals + 1
    /\ LET kind == inv.body.kind
           val  == CASE kind = "const" -> inv.body.val
                     [] kind = "use_e" -> F(bound)
                     [] OTHER          -> Unit
       IN /\ result' = IF Rule.elseArm = "Err(body)" THEN Wrap("Err", val) ELSE val
          /\ outcome' = IF kind = "panic" THEN "body_panic"
                        ELSE IF kind = "return" THEN "return" ELSE "value"
          /\ panicMsg' = IF kind = "panic" THEN CallerMessage ELSE panicMsg
          /\ pc' = IF kind = "panic" THEN "done" ELSE "after"
    /\ UNCHANGED <<inv, evals, scrut, bound, afterRan>>

\* $b is evaluated in place, in the caller's function.  A rule without
\* binder that took `|e| b` holds a closure, which the arm does not call.
EvalBody ==
    /\ pc = "body"
    /\ IF inv.shape.binder /\ Rule.binds = "none"
       THEN /\ result' = IF Rule.elseArm = "Err(body)" THEN Wrap("Err", Closure) ELSE Closure
            /\ outcome' = "value"
            /\ pc' = "after"
            /\ UNCHANGED <<bodyEvals, panicMsg>>
       ELSE /\ bodyEvals' = bodyEvals + 1
            /\ CASE inv.body.kind \in {"const", "use_e"} ->
                      LET val == IF inv.body.kind = "const" THEN inv.body.val ELSE F(bound)
                      IN /\ result' = IF Rule.elseArm = "Err(body)" THEN Wrap("Err", val) ELSE val
                         /\ outcome' = "value"
                         /\ pc' = "after"
                         /\ UNCHANGED panicMsg
                 [] inv.body.kind = "return" ->
                      /\ outcome' = "return"
                      /\ pc' = "done"
                      /\ UNCHANGED <<result, panicMsg>>
                 [] inv.body.kind = "panic" ->
                      /\ outcome' = "body_panic"
                      /\ panicMsg' = CallerMessage
                      /\ pc' = "done"
                      /\ UNCHANGED result
    /\ UNCHANGED <<inv, evals, scrut, bound, afterRan>>

\* The statement that follows the invocation in the caller.
After ==
    /\ pc = "after"
    /\ afterRan' = TRUE
    /\ pc' = "done"
    /\ UNCHANGED <<inv, evals, bodyEvals, scrut, bound, result, outcome, panicMsg>>

\* The caller's function is over; the next invocation starts afresh.
Reset ==
    /\ pc = "done"
    /\ pc' = "call"
    /\ inv' = NoInv
    /\ evals' = 0
    /\ bodyEvals' = 0
    /\ scrut' = NoVal
    /\ bound' = NoVal
    /\ result' = NoVal
    /\ outcome' = "none"
    /\ panicMsg' = <<>>
    /\ afterRan' = FALSE

Next ==
    \/ Call
    \/ EvalScrutinee
    \/ OkArm
    \/ PanicArm
    \/ ValueArm
    \/ BodyArm
    \/ EvalBody
    \/ After
    \/ Reset

Spec == Init /\ [][Next]_vars

(***************************************************************************)
(* Properties.                                                             *)
(***************************************************************************)
V == inv.target.value

IsForm(mac, hasIf, clause, binder) ==
    inv.mac = mac /\ inv.shape = Pat(hasIf, clause, binder)

\* The invocation has run to an outcome.
Settled == outcome # "none"

\* The value the caller's expression yields when it yields one.
Yields(e) == IF inv.body.kind = "const" THEN inv.body.val ELSE F(e)

BodyYields == inv.body.kind \in {"const", "use_e"}

\* What the invocation does after a mismatch with else/or expression $b,
\* whose value (wrapped or not) is val when it has one.
FollowsBody(val) ==
    /\ BodyYields => outcome = "value" /\ result = val
    /\ inv.body.kind = "return" => outcome = "return"
    /\ inv.body.kind = "panic" => outcome = "body_panic"

\* C1: whenever into_result of the target is Ok(P), inner!(V) yields exactly
\* P and does not panic.
C1_SuccessYieldsPayload ==
    (IsForm("inner", FALSE, "none", FALSE) /\ Settled /\ Tag(into_result(V)) = "Ok")
        => /\ outcome = "value"
           /\ result = Unwrap(into_result(V))
           /\ Tag(V) \in {"Some", "Ok", "Apple"}
           /\ result = Unwrap(V)

C1_Witness ==
    /\ IsForm("inner", FALSE, "none", FALSE)
    /\ V = Wrap("Some", IntV(1))
    /\ outcome = "value"
    /\ result = IntV(1)

\* C2: whenever into_result of the target is Err(E), inner!(V) panics,
\* inner!(V, else F) yields the value of F, and inner!(V, else |e| F) binds e
\* to E, the payload inside Err and not the whole value, and yields F's value.
C2_FailureArm ==
    (inv.mac = "inner" /\ ~inv.shape.hasIf /\ Tag(into_result(V)) = "Err")
        => LET E == Unwrap(into_result(V))
           IN /\ (inv.shape.clause = "none" /\ Settled) => outcome = "panic"
              /\ (inv.shape.clause = "else" /\ Settled) => FollowsBody(Yields(E))
              /\ (inv.shape.binder /\ pc \in {"body", "after", "done"})
                    => bound = E /\ bound # V /\ bound # into_result(V)
              /\ (~inv.shape.binder) => bound = NoVal

C2_Witness ==
    /\ IsForm("inner", FALSE, "else", TRUE)
    /\ V = Wrap("Err", IntV(1))
    /\ inv.body.kind = "use_e"
    /\ bound = IntV(1)
    /\ outcome = "value"
    /\ result = F(IntV(1))

\* C3: with a variant selector, inner! yields the payload when the target is
\* the selected variant; otherwise it panics (no else) or does what the else
\* expression does, its binder naming the whole target.  into_result plays
\* no part, even where it would classify the target differently.
C3_SelectorForm ==
    (inv.mac = "inner" /\ inv.shape.hasIf)
        => /\ (Settled /\ Tag(V) = inv.sel) => outcome = "value" /\ result = Unwrap(V)
           /\ (Settled /\ Tag(V) # inv.sel /\ inv.shape.clause = "none") => outcome = "panic"
           /\ (Settled /\ Tag(V) # inv.sel /\ inv.shape.clause = "else") => FollowsBody(Yields(V))
           /\ (inv.shape.binder /\ Tag(V) # inv.sel /\ pc \in {"body", "after", "done"})
                => bound = V
           /\ pc # "scrutinee" => scrut = V

C3_Witness ==
    /\ IsForm("inner", TRUE, "else", TRUE)
    /\ V = Wrap("Apple", IntV(1))
    /\ inv.sel = "Orange"
    /\ Tag(into_result(V)) = "Ok"
    /\ inv.body.kind = "use_e"
    /\ bound = V
    /\ result = F(V)

\* A selected Err is a match although into_result calls it a failure.
C3_WitnessErrSelected ==
    /\ IsForm("inner", TRUE, "none", FALSE)
    /\ V = Wrap("Err", IntV(1))
    /\ inv.sel = "Err"
    /\ outcome = "value"
    /\ result = IntV(1)

\* C4: in every form of inner!, some! and ok! and on every arm, the target
\* expression is evaluated exactly once per invocation.
C4_SingleEvaluation ==
    /\ pc \in {"call", "scrutinee"} => evals = 0
    /\ pc \in {"match", "body", "after"} => evals = 1
    /\ Settled => evals = 1

C4_Witness ==
    /\ outcome = "panic"
    /\ inv.target.text = "next(&mut n)"
    /\ evals = 1

\* C5: some!(V, if VARIANT) is Some(payload) when V is the selected variant
\* and None otherwise; with an else expression a mismatch yields exactly the
\* expression's value, unwrapped, and a binder names the whole target.
C5_SomeLaw ==
    inv.mac = "some"
        => /\ (Settled /\ Tag(V) = inv.sel)
                => outcome = "value" /\ result = Wrap("Some", Unwrap(V))
           /\ (Settled /\ Tag(V) # inv.sel /\ inv.shape.clause = "none")
                => outcome = "value" /\ result = NoneV
           /\ (Settled /\ Tag(V) # inv.sel /\ inv.shape.clause = "else")
                => FollowsBody(Yields(V))
           /\ (inv.shape.binder /\ Tag(V) # inv.sel /\ pc \in {"body", "after", "done"})
                => bound = V

C5_Witness ==
    /\ IsForm("some", TRUE, "else", TRUE)
    /\ V = Wrap("Orange", IntV(1))
    /\ inv.sel = "Apple"
    /\ inv.body.kind = "use_e"
    /\ bound = V
    /\ outcome = "value"
    /\ result = F(V)

\* C6: every ok! form yields Ok(payload) on a match.  On a mismatch the form
\* without clause yields Err(V), the or forms yield Err(R), and the else
\* forms yield exactly the value of E; a binder names the whole target.
C6_OkLaws ==
    inv.mac = "ok"
        => /\ (Settled /\ Tag(V) = inv.sel)
                => outcome = "value" /\ result = Wrap("Ok", Unwrap(V))
           /\ (Settled /\ Tag(V) # inv.sel /\ inv.shape.clause = "none")
                => outcome = "value" /\ result = Wrap("Err", V)
           /\ (Settled /\ Tag(V) # inv.sel /\ inv.shape.clause = "or")
                => FollowsBody(Wrap("Err", Yields(V)))
           /\ (Settled /\ Tag(V) # inv.sel /\ inv.shape.clause = "else")
                => FollowsBody(Yields(V))
           /\ (inv.shape.binder /\ Tag(V) # inv.sel /\ pc \in {"body", "after", "done"})
                => bound = V

C6_Witness ==
    /\ IsForm("ok", TRUE, "or", FALSE)
    /\ V = Wrap("Apple", IntV(1))
    /\ inv.sel = "Orange"
    /\ inv.body = [kind |-> "const", val |-> IntV(0)]
    /\ outcome = "value"
    /\ result = Wrap("Err", IntV(0))

\* C7: into_result leaves a Result unchanged, turns Some(p) into Ok(p) and
\* None into Err(()), and converts every input to an Ok or an Err.
C7_Conversion ==
    (~inv.shape.hasIf /\ pc \in {"match", "body", "after", "done"})
        => /\ Tag(scrut) \in {"Ok", "Err"}
           /\ V \in ResultValues => scrut = V
           /\ Tag(V) = "Some" => scrut = Wrap("Ok", Unwrap(V))
           /\ V = NoneV => scrut = Wrap("Err", Unit)

C7_Witness ==
    /\ ~inv.shape.hasIf
    /\ pc = "match"
    /\ V = NoneV
    /\ scrut = Wrap("Err", Unit)

C7_WitnessResult ==
    /\ ~inv.shape.hasIf
    /\ pc = "match"
    /\ V = Wrap("Err", IntV(1))
    /\ scrut = V

\* C8: the macros panic only in inner!(x) and inner!(x, if VARIANT) on a
\* mismatch; every other form hands the caller a value, or does what the
\* caller's own expression does.
C8_PanicOnlyWithoutFallback ==
    /\ outcome = "panic" => inv.mac = "inner" /\ inv.shape.clause = "none"
    /\ (Settled /\ ~(inv.mac = "inner" /\ inv.shape.clause = "none"))
          => /\ outcome \in {"value", "return", "body_panic"}
             /\ outcome = "value" => result # NoVal
             /\ outcome = "return" => inv.body.kind = "return"
             /\ outcome = "body_panic" => inv.body.kind = "panic"
             /\ inv.shape.clause = "none" => outcome = "value"

C8_Witness ==
    /\ IsForm("some", TRUE, "none", FALSE)
    /\ Tag(V) # inv.sel
    /\ outcome = "value"
    /\ result = NoneV

\* C9: when a no-fallback inner! form panics, the message contains the source
\* text of the target expression, and both forms build the same message.
C9_PanicMessage ==
    outcome = "panic"
        => /\ \E i \in 1..Len(panicMsg) : panicMsg[i] = inv.target.text
           /\ panicMsg = <<"Unexpected value found inside '", inv.target.text, "'">>

C9_Witness ==
    /\ IsForm("inner", FALSE, "none", FALSE)
    /\ outcome = "panic"
    /\ inv.target.text = "z"
    /\ panicMsg[2] = "z"

C9_WitnessSelector ==
    /\ IsForm("inner", TRUE, "none", FALSE)
    /\ outcome = "panic"
    /\ inv.target.text = "z"
    /\ panicMsg[2] = "z"

\* C10: the else/or expression is evaluated only after a mismatch, never
\* when the target matches; and when it returns, the enclosing function is
\* left at once and the statement after the invocation never runs.
C10_FallbackOnlyOnFailure ==
    /\ bodyEvals <= 1
    /\ (pc \in {"match", "body", "after", "done"}
          /\ Tag(scrut) = (IF inv.shape.hasIf THEN inv.sel ELSE "Ok"))
          => bodyEvals = 0 /\ pc # "body"
    /\ inv.shape.clause = "none" => bodyEvals = 0
    /\ outcome = "return" => ~afterRan /\ pc = "done"

C10_Witness ==
    /\ IsForm("inner", FALSE, "else", FALSE)
    /\ V = Wrap("Err", IntV(1))
    /\ inv.body.kind = "return"
    /\ outcome = "return"
    /\ bodyEvals = 1
    /\ pc = "done"
    /\ ~afterRan

C10_WitnessMatch ==
    /\ inv.shape.clause = "else"
    /\ Tag(V) = inv.sel
    /\ afterRan
    /\ bodyEvals = 0

====
